---- MODULE Spec2Model ----
(***************************************************************************)
(* A model of the finite-state toolkit of fsa.py and fst.py: the FSA       *)
(* class (add_transition, recognize, minimize), build_trie, and the FST    *)
(* class (add_transition, fromfsa, invert, transduce, compose_fst).        *)
(*                                                                         *)
(* Representation.  A Python dict {(s1, sym): {s2, ...}} is the set of     *)
(* triples <<s1, sym, s2>>; an FST dict {(s1, insym): {(outsym, s2, w)}}   *)
(* is the set of 5-tuples <<s1, insym, outsym, s2, w>>.  A string is a     *)
(* sequence of one-character symbols; the epsilon symbol is the empty      *)
(* string "", and appending it to an output leaves the output unchanged.   *)
(* Python's None is the value None below.  States are small non-negative   *)
(* integers, which CPython's sets iterate in ascending order (hash(i) = i, *)
(* one slot per value while the values are below the table size).          *)
(***************************************************************************)
EXTENDS Integers, Sequences, FiniteSets, TLC

VARIABLES
    fsa,      \* the FSA instance under test
    snaps,    \* the FSA as it was just before each minimize() call, in call order
    words,    \* the word list fsa was built from by build_trie (<<>> otherwise)
    ncalls,   \* number of add_transition calls made so far
    inp,      \* the string given to recognize and to transduce
    ret,      \* the outcome of the latest call
    m1,       \* an FST instance: the receiver of invert and transduce, and
              \* the first operand of compose_fst
    m2,       \* an FST instance: the second operand of compose_fst
    m3,       \* the FST compose_fst(m1, m2) returned
    fcalls,   \* number of add_transition calls made on m1 and m2 together
    m1snaps,  \* m1 as it was just before each invert() or compose_fst call
    aliased,  \* whether m1.accepting and fsa.accepting are one set object
    tpc,      \* where transduce is: "idle", "loop", "body", "done" or "raised"
    paths,    \* transduce's set `paths`; two Path objects with the same
              \* fields branch alike, so the set is kept by fields
    accepting_strings   \* transduce's set `accepting_strings`

fsavars == <<fsa, snaps, words, ncalls>>
fstvars == <<m1, m2, m3, fcalls, m1snaps, aliased>>
tvars == <<tpc, paths, accepting_strings>>
vars == <<fsa, snaps, words, ncalls, inp, ret, m1, m2, m3, fcalls, m1snaps,
          aliased, tpc, paths, accepting_strings>>

----------------------------------------------------------------------------
(* Bounds and domains *)

MaxWords == 2
MaxWordLen == 2
MaxLen == 3
MaxTrans == 3
MaxState == 2
MaxMinimize == 2
MaxFstTrans == 2
MaxInvert == 2
MaxOut == 3
MaxWeight == 3

None == -1
Epsilon == ""
Symbols == {"a", "b"}
StateIds == 0..MaxState

\* the arguments the add_transition calls on an FST are drawn from
FstStateIds == {0, 1}
FstInSymbols == {"a", Epsilon}
Weights == {0, 1}

StringsUpTo(n) == UNION {[1..k -> Symbols] : k \in 0..n}
WordLists == UNION {[1..k -> StringsUpTo(MaxWordLen)] : k \in 0..MaxWords}

Range(f) == {f[i] : i \in DOMAIN f}

RECURSIVE SortSet(_)
SortSet(S) ==
    IF S = {} THEN <<>>
    ELSE LET m == CHOOSE x \in S : \A y \in S : x <= y
         IN  <<m>> \o SortSet(S \ {m})

----------------------------------------------------------------------------
(* class FSA *)

\* `first` is the source state of the first key of the transitions dict (a
\* dict iterates in insertion order), None while the dict is empty
FSA(deterministic) ==
    [transitions |-> {}, start_state |-> None, accepting |-> {},
     is_deterministic |-> deterministic, states |-> {}, first |-> None]

\* move(sym, s1): the targets of (s1, sym), the empty set when undefined
Move(f, sym, s1) == {t[3] : t \in {x \in f.transitions : x[1] = s1 /\ x[2] = sym}}

\* s2 = len(_states); while s2 in _states: s2 += 1
FreshState(states) ==
    CHOOSE n \in Cardinality(states)..(2 * Cardinality(states)) :
        /\ n \notin states
        /\ \A m \in Cardinality(states)..(n - 1) : m \in states

\* the state add_transition returns: s2, or the fresh state when s2 is None
AddTransitionTarget(f, s1, s2) ==
    IF s2 # None THEN s2
    ELSE FreshState(IF f.start_state = None THEN f.states \cup {s1} ELSE f.states)

AddTransition(f, s1, sym, s2, accepting) ==
    LET t2 == AddTransitionTarget(f, s1, s2)
        trans == f.transitions \cup {<<s1, sym, t2>>}
    IN  [transitions |-> trans,
         start_state |-> IF f.start_state = None THEN s1 ELSE f.start_state,
         accepting |-> IF accepting THEN f.accepting \cup {t2} ELSE f.accepting,
         is_deterministic |->
             f.is_deterministic
             /\ Cardinality({t[3] : t \in {x \in trans : x[1] = s1 /\ x[2] = sym}}) <= 1,
         states |-> f.states \cup {s1, t2},
         first |-> IF f.transitions = {} THEN s1 ELSE f.first]

\* the walk of _recognize_dfa from an arbitrary state: the state reached, or
\* None when a step is undefined.  next(iter(states)) takes the first target
\* of the set, the smallest one.
RECURSIVE Walk(_, _, _)
Walk(f, state, s) ==
    IF s = <<>> THEN state
    ELSE LET states == Move(f, Head(s), state)
         IN  IF states = {} THEN None
             ELSE Walk(f, CHOOSE x \in states : \A y \in states : x <= y, Tail(s))

\* a walk that answers without looking at the accepting set
RecognizeDfaAnyState(f, s) ==
    LET state == Walk(f, f.start_state, s)
    IN  [exc |-> "None", val |-> state # None]

RecognizeDfa(f, s) ==
    LET state == Walk(f, f.start_state, s)
    IN  [exc |-> "None", val |-> state # None /\ state \in f.accepting]

\* the states the agenda of _recognize_nfa holds at input position Len(s)
RECURSIVE AgendaAt(_, _, _)
AgendaAt(f, nodes, s) ==
    IF s = <<>> THEN nodes
    ELSE AgendaAt(f, UNION {Move(f, Head(s), n) : n \in nodes}, Tail(s))

\* s[inp_pos] with inp_pos = 0 raises IndexError on the empty string
RecognizeNfa(f, s) ==
    IF s = <<>> THEN [exc |-> "IndexError", val |-> FALSE]
    ELSE [exc |-> "None",
          val |-> AgendaAt(f, {f.start_state}, s) \cap f.accepting # {}]

Recognize(f, s) ==
    IF f.is_deterministic THEN RecognizeDfa(f, s) ELSE RecognizeNfa(f, s)

\* the keys (s1, sym) of the transitions dict
Keys(f) == {<<t[1], t[2]>> : t \in f.transitions}

\* the outcomes of next(iter(self.move(sym, s1))) for every key: one target
\* per key.  A deterministic automaton has exactly one such choice; for a
\* non-deterministic one the target taken depends on the set's iteration
\* order, and every choice is an outcome.
Picks(f) ==
    {p \in [Keys(f) -> f.states] : \A k \in Keys(f) : p[k] \in Move(f, k[2], k[1])}

\* _get_state_subset_dict: the index (from 0) of the subset holding state
SubsetOf(partition, state) ==
    CHOOSE i \in 0..(Len(partition) - 1) : state \in partition[i + 1]

\* _get_set_id: the (symbol, subset of the target) pairs of a state's row
GetSetId(s, pick, partition) ==
    {<<k[2], SubsetOf(partition, pick[k])>> : k \in {x \in DOMAIN pick : x[1] = s}}

\* lines 146-155: the subsets one subset splits into, in the order their
\* first state is met
SubSubsets(subset, pick, partition) ==
    LET id(s) == GetSetId(s, pick, partition)
        first == {s \in subset : \A t \in subset : t < s => id(t) # id(s)}
        order == SortSet(first)
    IN  [i \in 1..Len(order) |-> {s \in subset : id(s) = id(order[i])}]

\* lines 141-155: one pass of the while loop
RECURSIVE RefineFrom(_, _, _)
RefineFrom(i, pick, partition) ==
    IF i > Len(partition) THEN <<>>
    ELSE SubSubsets(partition[i], pick, partition) \o RefineFrom(i + 1, pick, partition)

\* lines 137-155: the loop runs until a pass leaves the number of subsets
\* unchanged, and the partition kept is the one before that last pass
RECURSIVE FindPartition(_, _, _)
FindPartition(partition, new_partition, pick) ==
    IF Len(new_partition) = Len(partition) THEN partition
    ELSE FindPartition(new_partition, RefineFrom(1, pick, new_partition), pick)

\* lines 157-164: the merged automaton, built by add_transition calls on a
\* fresh FSA whose start_state is set beforehand; the keys are taken in the
\* order of the dict, the key of f.first first
RECURSIVE MergeStates(_, _, _, _, _)
MergeStates(m, keys, f, pick, partition) ==
    IF keys = {} THEN m
    ELSE LET k == IF m.transitions = {}
                  THEN CHOOSE x \in keys : x[1] = f.first
                  ELSE CHOOSE x \in keys : TRUE
             s2 == pick[k]
         IN  MergeStates(
                 AddTransition(m, SubsetOf(partition, k[1]), k[2],
                               SubsetOf(partition, s2), s2 \in f.accepting),
                 keys \ {k}, f, pick, partition)

Minimize(f, pick) ==
    LET partition ==
            FindPartition(<<>>, <<f.states \ f.accepting, f.accepting>>, pick)
    IN  MergeStates([FSA(TRUE) EXCEPT !.start_state = f.start_state],
                    Keys(f), f, pick, partition)

----------------------------------------------------------------------------
(* build_trie *)

\* lines 185-202: one word.  A trie never holds two targets for one key, so
\* the loop over the targets of (current_state, char) meets at most one.
RECURSIVE TrieInsert(_, _, _)
TrieInsert(f, current_state, word) ==
    IF word = <<>> THEN [f EXCEPT !.accepting = @ \cup {current_state}]
    ELSE LET targets == Move(f, Head(word), current_state)
         IN  IF targets = {}
             THEN TrieInsert(AddTransition(f, current_state, Head(word), None, FALSE),
                             AddTransitionTarget(f, current_state, None),
                             Tail(word))
             ELSE TrieInsert(f, CHOOSE x \in targets : TRUE, Tail(word))

RECURSIVE TrieInsertAll(_, _)
TrieInsertAll(f, ws) ==
    IF ws = <<>> THEN f
    ELSE TrieInsertAll(TrieInsert(f, f.start_state, Head(ws)), Tail(ws))

BuildTrie(ws) ==
    TrieInsertAll([FSA(TRUE) EXCEPT !.start_state = 0, !.states = {0}], ws)

----------------------------------------------------------------------------
(* class FST *)

\* None given for a symbol argument
NoSym == "None"

\* `first` is the source state of the first key of the transitions dict
FST ==
    [transitions |-> {}, start_state |-> None, accepting |-> {},
     sigma_in |-> {}, sigma_out |-> {}, states |-> {0}, first |-> None]

\* add_transition: s1 joins _states only when it becomes the start state
FstAddTransition(t, s1, insym, s2, outsym, w, accepting) ==
    LET st0 == IF t.start_state = None THEN t.states \cup {s1} ELSE t.states
        t2 == IF s2 = None THEN FreshState(st0) ELSE s2
        out == IF outsym = NoSym THEN insym ELSE outsym
    IN  [transitions |-> t.transitions \cup {<<s1, insym, out, t2, w>>},
         start_state |-> IF t.start_state = None THEN s1 ELSE t.start_state,
         accepting |-> IF accepting THEN t.accepting \cup {t2} ELSE t.accepting,
         sigma_in |-> t.sigma_in \cup {insym},
         sigma_out |-> t.sigma_out \cup {out},
         states |-> st0 \cup {t2},
         first |-> IF t.transitions = {} THEN s1 ELSE t.first]

\* a loop of add_transition(s1, insym, s2, outsym, w) calls over `calls`, a set
\* of <<s1, insym, s2, outsym, w>>; the call made first has source `first`
RECURSIVE AddAll(_, _, _)
AddAll(t, calls, first) ==
    IF calls = {} THEN t
    ELSE LET c == IF t.transitions = {} /\ \E x \in calls : x[1] = first
                  THEN CHOOSE x \in calls : x[1] = first
                  ELSE CHOOSE x \in calls : TRUE
         IN  AddAll(FstAddTransition(t, c[1], c[2], c[3], c[4], c[5], FALSE),
                    calls \ {c}, first)

\* fromfsa: identity transitions of weight 0; the accepting set and the start
\* state are taken over from the FSA
FromFsa(f) ==
    LET fst == AddAll(FST, {<<x[1], x[2], x[3], x[2], 0>> : x \in f.transitions}, f.first)
    IN  [fst EXCEPT !.accepting = f.accepting, !.start_state = f.start_state]

\* get_transitions(s1, insym): the (s2, outsym, w) of the key (s1, insym)
GetTransitions(t, s1, insym) ==
    {<<x[4], x[3], x[5]>> : x \in {y \in t.transitions : y[1] = s1 /\ y[2] = insym}}

\* an invert that leaves the weight argument out (w defaults to 0)
InvertSwappedNoWeight(t) ==
    {<<x[1], x[3], x[4], x[2], 0>> : x \in t.transitions}

\* invert: add_transition(s1, outsym, s2, insym, w) for every transition
InvertSwapped(t) ==
    {<<x[1], x[3], x[4], x[2], x[5]>> : x \in t.transitions}

Invert(t) ==
    LET inverted == AddAll(FST, InvertSwapped(t), t.first)
    IN  [inverted EXCEPT !.accepting = t.accepting, !.start_state = t.start_state]

\* _cross
Cross(s1, s2) == {<<e1, e2>> : e1 \in s1, e2 \in s2}

\* a compose_fst that adds no epsilon loops to m1
NoEpsilonLoops(a) == a

\* compose_fst, lines 191-193: m1.add_transition(state, "", state) for every
\* state of m1._states, made on m1 itself
AddEpsilonLoops(a) ==
    AddAll(a, {<<s, Epsilon, s, NoSym, 0>> : s \in a.states},
           CHOOSE s \in a.states : \A x \in a.states : s <= x)

\* lines 196-203: the product transitions
Combine(a, b) ==
    {<<<<e1[1], e2[1]>>, e1[2], e2[3], <<e1[4], e2[4]>>, e2[5]>> :
        <<e1, e2>> \in {p \in a.transitions \X b.transitions : p[1][3] = p[2][2]}}

\* lines 206-214: the states the traversal visits
RECURSIVE Visit(_, _)
Visit(visited, transitions) ==
    LET more == {x[4] : x \in {y \in transitions : y[1] \in visited}} \ visited
    IN  IF more = {} THEN visited ELSE Visit(visited \cup more, transitions)

\* compose_fst: the composed FST; the start state is the constant (0, 0)
ComposeFst(a, b) ==
    LET start == <<0, 0>>
        product == Combine(AddEpsilonLoops(a), b)
        visited == Visit({start}, product)
    IN  [transitions |-> {x \in product : x[1] \in visited},
         start_state |-> start,
         accepting |-> Cross(a.accepting, b.accepting) \cap visited,
         sigma_in |-> {x[2] : x \in product},
         sigma_out |-> {x[3] : x \in product},
         states |-> visited \cup {start}]

----------------------------------------------------------------------------
(* FST.transduce *)

Path(current_state, string, weight, input_pos, is_accepting) ==
    [current_state |-> current_state, string |-> string, weight |-> weight,
     input_pos |-> input_pos, is_accepting |-> is_accepting]

\* string + outsym: the epsilon symbol is the empty string
Concat(string, outsym) == IF outsym = Epsilon THEN string ELSE Append(string, outsym)

\* the paths one path branches into on the symbol insym, its position moved
\* on by step
Follow(t, path, insym, step) ==
    {Path(x[1], Concat(path.string, x[2]), path.weight + x[3],
          path.input_pos + step, x[1] \in t.accepting) :
        x \in GetTransitions(t, path.current_state, insym)}

\* lines 102-110: the paths out of the start state (s is not empty)
FirstPaths(t, s) ==
    LET origin == Path(t.start_state, <<>>, 0, 0, FALSE)
    IN  Follow(t, origin, s[1], 1) \cup Follow(t, origin, Epsilon, 0)

\* lines 115-145, one pass of the while loop: the paths at the end of s are
\* dropped, the others are replaced by the paths they branch into
NewPaths(t, s, frontier) ==
    UNION {Follow(t, path, s[path.input_pos + 1], 1) \cup Follow(t, path, Epsilon, 0) :
              path \in {q \in frontier : q.input_pos < Len(s)}}

\* lines 118-122: the outputs of the paths at the end of s in an accepting state
Accepted(s, frontier) ==
    {<<path.string, path.weight>> :
        path \in {q \in frontier : q.input_pos = Len(s) /\ q.is_accepting}}

----------------------------------------------------------------------------
(* Operations on the FSA instance *)

\* fromfsa, line 36: fst.accepting = fsa.accepting binds the set object of the
\* FSA, so what one instance adds to its accepting set the other holds too
ThroughAlias(obj, other) ==
    IF aliased THEN [obj EXCEPT !.accepting = other.accepting] ELSE obj

Outcome(op, arg, exc, val) == [op |-> op, arg |-> arg, exc |-> exc, val |-> val]

InitObjects ==
    /\ fsa = FSA(TRUE)
    /\ snaps = <<>>
    /\ words = <<>>
    /\ ncalls = 0
    /\ ret = Outcome("init", <<>>, "None", FALSE)
    /\ m1 = FST
    /\ m2 = FST
    /\ m3 = FST
    /\ fcalls = 0
    /\ m1snaps = <<>>
    /\ aliased = FALSE
    /\ tpc = "idle"
    /\ paths = {}
    /\ accepting_strings = {}

InitFSA == InitObjects /\ inp = <<>>

\* the query string is drawn from every string over the alphabet up to MaxLen
InitTrie == InitObjects /\ inp \in StringsUpTo(MaxLen)

\* fsa = build_trie(ws)
BuildTrieAct ==
    /\ ret.op = "init"
    /\ \E ws \in WordLists :
        /\ fsa' = BuildTrie(ws)
        /\ words' = ws
    /\ ret' = Outcome("build_trie", <<>>, "None", FALSE)
    /\ UNCHANGED <<snaps, ncalls, inp, fstvars, tvars>>

\* fsa.add_transition(s1, sym, s2, accepting)
AddTransitionAct ==
    /\ ncalls < MaxTrans
    /\ snaps = <<>>
    /\ \E s1 \in StateIds, sym \in Symbols, s2 \in StateIds \cup {None},
          accepting \in BOOLEAN :
        fsa' = AddTransition(fsa, s1, sym, s2, accepting)
    /\ m1' = ThroughAlias(m1, fsa')
    /\ ncalls' = ncalls + 1
    /\ ret' = Outcome("add_transition", <<>>, "None", FALSE)
    /\ UNCHANGED <<snaps, words, inp, m2, m3, fcalls, m1snaps, aliased, tvars>>

\* fsa.recognize(s)
RecognizeAct ==
    /\ ret.op # "init"
    /\ LET r == Recognize(fsa, inp)
       IN  ret' = Outcome("recognize", inp, r.exc, r.val)
    /\ UNCHANGED <<fsavars, inp, fstvars, tvars>>

\* fsa.minimize(): no check of is_deterministic is made, and the instance is
\* overwritten by the merged automaton (self.__dict__ = minimised_fsa.__dict__)
MinimizeAct ==
    /\ ret.op # "init"
    /\ Len(snaps) < MaxMinimize
    /\ \E pick \in Picks(fsa) : fsa' = Minimize(fsa, pick)
    /\ snaps' = Append(snaps, fsa)
    /\ aliased' = FALSE
    /\ ret' = Outcome("minimize", <<>>, "None", FALSE)
    /\ UNCHANGED <<words, ncalls, inp, m1, m2, m3, fcalls, m1snaps, tvars>>

NextTrie == BuildTrieAct \/ RecognizeAct
SpecTrie == InitTrie /\ [][NextTrie]_vars

NextTrieMin == BuildTrieAct \/ MinimizeAct \/ RecognizeAct
SpecTrieMin == InitTrie /\ [][NextTrieMin]_vars

NextRecognize == AddTransitionAct \/ RecognizeAct
SpecRecognize == InitTrie /\ [][NextRecognize]_vars

NextFSA == AddTransitionAct \/ MinimizeAct
SpecFSA == InitFSA /\ [][NextFSA]_vars

----------------------------------------------------------------------------
(* Operations on the FST instances *)

\* the input of transduce is drawn from the strings over "a" up to MaxLen
InitFST == InitObjects /\ inp \in UNION {[1..k -> {"a"}] : k \in 0..MaxLen}

\* m1.add_transition(s1, insym, s2, outsym, w, accepting)
M1AddTransitionAct ==
    /\ fcalls < MaxFstTrans
    /\ m1snaps = <<>>
    /\ tpc = "idle"
    /\ \E s1 \in FstStateIds, insym \in FstInSymbols, s2 \in FstStateIds,
          outsym \in {"b", Epsilon, NoSym}, w \in Weights, accepting \in BOOLEAN :
        m1' = FstAddTransition(m1, s1, insym, s2, outsym, w, accepting)
    /\ fsa' = ThroughAlias(fsa, m1')
    /\ fcalls' = fcalls + 1
    /\ ret' = Outcome("fst_add_transition", <<>>, "None", FALSE)
    /\ UNCHANGED <<snaps, words, ncalls, inp, m2, m3, m1snaps, aliased, tvars>>

\* m1.add_transition(...) with an input symbol that is not epsilon: m1 as the
\* first operand of compose_fst
LexAddTransitionAct ==
    /\ fcalls < MaxFstTrans
    /\ m1snaps = <<>>
    /\ \E s1 \in FstStateIds, s2 \in FstStateIds, outsym \in {Epsilon, NoSym},
          w \in Weights, accepting \in BOOLEAN :
        m1' = FstAddTransition(m1, s1, "a", s2, outsym, w, accepting)
    /\ fsa' = ThroughAlias(fsa, m1')
    /\ fcalls' = fcalls + 1
    /\ ret' = Outcome("fst_add_transition", <<>>, "None", FALSE)
    /\ UNCHANGED <<snaps, words, ncalls, inp, m2, m3, m1snaps, aliased, tvars>>

\* m2.add_transition(s1, insym, s2, outsym, w, accepting)
M2AddTransitionAct ==
    /\ fcalls < MaxFstTrans
    /\ m1snaps = <<>>
    /\ \E s1 \in FstStateIds, insym \in FstInSymbols, s2 \in FstStateIds,
          outsym \in {"b", Epsilon}, w \in Weights, accepting \in BOOLEAN :
        m2' = FstAddTransition(m2, s1, insym, s2, outsym, w, accepting)
    /\ fcalls' = fcalls + 1
    /\ ret' = Outcome("fst_add_transition", <<>>, "None", FALSE)
    /\ UNCHANGED <<fsavars, inp, m1, m3, m1snaps, aliased, tvars>>

\* m1 = FST.fromfsa(fsa)
FromFsaAct ==
    /\ ret.op = "build_trie"
    /\ m1' = FromFsa(fsa)
    /\ aliased' = TRUE
    /\ ret' = Outcome("fromfsa", <<>>, "None", FALSE)
    /\ UNCHANGED <<fsavars, inp, m2, m3, fcalls, m1snaps, tvars>>

\* m1.mark_accepting(state)
MarkAcceptingAct ==
    /\ ret.op \in {"fromfsa", "fst_add_transition", "mark_accepting"}
    /\ m1snaps = <<>>
    /\ \E state \in FstStateIds : m1' = [m1 EXCEPT !.accepting = @ \cup {state}]
    /\ fsa' = ThroughAlias(fsa, m1')
    /\ ret' = Outcome("mark_accepting", <<>>, "None", FALSE)
    /\ UNCHANGED <<snaps, words, ncalls, inp, m2, m3, fcalls, m1snaps, aliased, tvars>>

\* m1.invert(): the instance is overwritten (self.__dict__ = inverted.__dict__)
InvertAct ==
    /\ ret.op \in {"fst_add_transition", "invert"}
    /\ Len(m1snaps) < MaxInvert
    /\ m1' = Invert(m1)
    /\ m1snaps' = Append(m1snaps, m1)
    /\ ret' = Outcome("invert", <<>>, "None", FALSE)
    /\ UNCHANGED <<fsavars, inp, m2, m3, fcalls, aliased, tvars>>

\* m3 = FST.compose_fst(m1, m2): the epsilon loops are added to m1 itself
ComposeFstAct ==
    /\ ret.op = "fst_add_transition"
    /\ m3' = ComposeFst(m1, m2)
    /\ m1' = AddEpsilonLoops(m1)
    /\ m1snaps' = Append(m1snaps, m1)
    /\ ret' = Outcome("compose_fst", <<>>, "None", FALSE)
    /\ UNCHANGED <<fsavars, inp, m2, fcalls, aliased, tvars>>

\* the accumulated outputs and weights the model follows a path up to
Capped == \E path \in paths : Len(path.string) > MaxOut \/ path.weight > MaxWeight

\* m1.transduce(inp), lines 102-113: s[0] raises IndexError on the empty string
TransduceStartAct ==
    /\ tpc = "idle"
    /\ ret.op \in {"fst_add_transition", "fromfsa"}
    /\ IF inp = <<>>
       THEN /\ tpc' = "raised"
            /\ ret' = Outcome("transduce", inp, "IndexError", FALSE)
            /\ UNCHANGED <<paths, accepting_strings>>
       ELSE /\ tpc' = "loop"
            /\ paths' = FirstPaths(m1, inp)
            /\ accepting_strings' = {}
            /\ ret' = Outcome("transduce", inp, "None", FALSE)
    /\ UNCHANGED <<fsavars, inp, fstvars>>

\* line 114 and line 147: the test of `while paths`; when it fails, the
\* return of accepting_strings
TransduceTestAct ==
    /\ tpc = "loop"
    /\ ~Capped
    /\ tpc' = IF paths = {} THEN "done" ELSE "body"
    /\ UNCHANGED <<fsavars, inp, ret, fstvars, paths, accepting_strings>>

\* lines 115-145: one pass of the loop body
TransduceBodyAct ==
    /\ tpc = "body"
    /\ paths' = NewPaths(m1, inp, paths)
    /\ accepting_strings' = accepting_strings \cup Accepted(inp, paths)
    /\ tpc' = "loop"
    /\ UNCHANGED <<fsavars, inp, ret, fstvars>>

NextFST ==
    M1AddTransitionAct \/ TransduceStartAct \/ TransduceTestAct \/ TransduceBodyAct
SpecFST == InitFST /\ [][NextFST]_vars
\* transduce is one sequential call: once entered, its loop keeps running
SpecFSTFair ==
    SpecFST /\ WF_vars(TransduceTestAct) /\ WF_vars(TransduceBodyAct)

NextInvert == M1AddTransitionAct \/ InvertAct
SpecInvert == InitFSA /\ [][NextInvert]_vars

NextLexicon ==
    \/ BuildTrieAct \/ FromFsaAct
    \/ TransduceStartAct \/ TransduceTestAct \/ TransduceBodyAct
SpecLexicon == InitTrie /\ [][NextLexicon]_vars

NextCompose == LexAddTransitionAct \/ M2AddTransitionAct \/ ComposeFstAct
SpecCompose == InitFSA /\ [][NextCompose]_vars

NextIsolation ==
    \/ BuildTrieAct \/ FromFsaAct \/ MarkAcceptingAct
    \/ LexAddTransitionAct \/ ComposeFstAct
SpecIsolation == InitFSA /\ [][NextIsolation]_vars

----------------------------------------------------------------------------
(* Properties of build_trie, recognize and minimize *)

NMin == Len(snaps)
Before == snaps[Len(snaps)]
SameAutomaton(f, g) ==
    /\ f.start_state = g.start_state
    /\ f.accepting = g.accepting
    /\ f.states = g.states
    /\ f.transitions = g.transitions

\* the suffixes accepted from state q.  Two states of a deterministic
\* automaton with n states have the same right language iff they agree on the
\* strings of length at most n (the n states and the implicit sink).
RightLanguage(f, q) ==
    {s \in StringsUpTo(Cardinality(f.states)) : Walk(f, q, s) \in f.accepting}

\* C1: build_trie(W).recognize(s) returns true iff s is a member of W, and
\* raises nothing
C1_TrieRecognizesExactlyItsWords ==
    (ret.op = "recognize" /\ NMin = 0) =>
        /\ ret.exc = "None"
        /\ ret.val <=> (ret.arg \in Range(words))

\* a trie of two different words has accepted one of length two
C1_Witness ==
    /\ ret.op = "recognize" /\ NMin = 0
    /\ Len(words) = 2 /\ words[1] # words[2]
    /\ Len(ret.arg) = 2 /\ ret.val

\* a proper prefix of a word that is not itself a word has been rejected
C1_WitnessPrefix ==
    /\ ret.op = "recognize" /\ NMin = 0
    /\ ~ret.val /\ ret.arg \notin Range(words)
    /\ \E w \in Range(words) : Len(w) > Len(ret.arg) /\ SubSeq(w, 1, Len(ret.arg)) = ret.arg

\* C2: recognize(s) returns the same boolean after minimize() as before, for
\* a deterministic automaton
C2_MinimizePreservesLanguage ==
    (ret.op = "recognize" /\ NMin = 1 /\ Before.is_deterministic) =>
        [exc |-> ret.exc, val |-> ret.val] = Recognize(Before, ret.arg)

\* C6: minimize() never adds states, and removes at least one when two
\* distinct states of the deterministic input have the same right language
C6_MinimizeShrinks ==
    (ret.op = "minimize" /\ NMin = 1 /\ Before.is_deterministic) =>
        /\ Cardinality(fsa.states) <= Cardinality(Before.states)
        /\ (\E p, q \in Before.states :
               p # q /\ RightLanguage(Before, p) = RightLanguage(Before, q))
           => Cardinality(fsa.states) < Cardinality(Before.states)

\* C7: a second minimize() leaves the automaton as the first one left it
C7_MinimizeIdempotent ==
    (ret.op = "minimize" /\ NMin = 2 /\ snaps[1].is_deterministic) =>
        SameAutomaton(fsa, Before)

\* C10: minimize() on a non-deterministic automaton ends in an error and
\* leaves the automaton as it was
C10_MinimizeRejectsNfa ==
    (ret.op = "minimize" /\ ~Before.is_deterministic) =>
        /\ ret.exc # "None"
        /\ SameAutomaton(fsa, Before)

----------------------------------------------------------------------------
(* Properties of transduce, invert and compose_fst *)

M1Before == m1snaps[Len(m1snaps)]

\* every state an FST mentions
Mentioned(t) ==
    t.states \cup {x[1] : x \in t.transitions} \cup {x[4] : x \in t.transitions}
    \cup t.accepting \cup (IF t.start_state = None THEN {} ELSE {t.start_state})

\* the states reached from the states `from` by one or more epsilon-input edges
RECURSIVE EpsilonReach(_, _, _)
EpsilonReach(t, from, seen) ==
    LET next == {x[4] : x \in {y \in t.transitions : y[2] = Epsilon /\ y[1] \in from}}
    IN  IF next \subseteq seen THEN seen
        ELSE EpsilonReach(t, next \ seen, seen \cup next)

HasEpsilonCycle(t) == \E s \in Mentioned(t) : s \in EpsilonReach(t, {s}, {})

\* the partial paths that extend the partial paths of `from` by one edge: on
\* the next symbol of s, or on epsilon
RECURSIVE AllPaths(_, _, _, _)
AllPaths(t, s, from, seen) ==
    LET next == UNION {(IF c.input_pos < Len(s)
                        THEN Follow(t, c, s[c.input_pos + 1], 1) ELSE {})
                       \cup Follow(t, c, Epsilon, 0) : c \in from}
    IN  IF next \subseteq seen THEN seen
        ELSE AllPaths(t, s, next \ seen, seen \cup next)

\* the (output, weight) of every path from the start state whose input
\* symbols concatenate to s, epsilon-input edges taken at any point, and that
\* ends in an accepting state (t has no cycle of epsilon-input edges)
PathOutputs(t, s) ==
    LET origin == Path(t.start_state, <<>>, 0, 0, t.start_state \in t.accepting)
    IN  {<<c.string, c.weight>> :
            c \in {d \in AllPaths(t, s, {origin}, {origin}) :
                      d.input_pos = Len(s) /\ d.is_accepting}}

\* C3: transduce(s) returns exactly the (output, weight) pairs of the paths
\* that read s, with epsilon-input edges at any point, and end in an
\* accepting state
C3_TransduceReturnsPathOutputs ==
    (ret.op = "transduce" /\ tpc \in {"done", "raised"} /\ ~HasEpsilonCycle(m1)) =>
        /\ tpc = "done"
        /\ accepting_strings = PathOutputs(m1, inp)

\* C5: the identity transducer of a trie maps a word of the lexicon to itself
\* with weight 0 and any other string to nothing
C5_LexiconTransducesItsWords ==
    (ret.op = "transduce" /\ tpc \in {"done", "raised"}) =>
        /\ tpc = "done"
        /\ accepting_strings = IF inp \in Range(words) THEN {<<inp, 0>>} ELSE {}

\* C8: two invert() calls in a row restore the transitions, the start state
\* and the accepting set
C8_InvertInvolution ==
    (ret.op = "invert" /\ Len(m1snaps) >= 2) =>
        /\ m1.transitions = m1snaps[Len(m1snaps) - 1].transitions
        /\ m1.start_state = m1snaps[Len(m1snaps) - 1].start_state
        /\ m1.accepting = m1snaps[Len(m1snaps) - 1].accepting

\* inverted twice: a transducer with a weighted edge whose input and output
\* symbols differ and a marked accepting state
C8_Witness ==
    /\ ret.op = "invert" /\ Len(m1snaps) = 2
    /\ \E x \in m1.transitions : x[2] # x[3] /\ x[5] > 0
    /\ m1.accepting # {}
    /\ M1Before.transitions # m1.transitions

\* C9: no transducer has a cycle of epsilon-input edges, so the loop of
\* transduce ends: a call that has entered the loop returns (or leaves the
\* outputs and weights the model follows)
C9_TransduceTerminates == (tpc = "loop") ~> (tpc = "done" \/ Capped)

\* C9, its ground: no transducer built holds a cycle of epsilon-input edges
C9_NoEpsilonCycle == ~HasEpsilonCycle(m1)

\* the transitions of the first operand with an epsilon loop on every state
WithLoops(t) == t.transitions \cup {<<s, Epsilon, Epsilon, s, 0>> : s \in Mentioned(t)}

\* the product edges of operands a (as passed to compose_fst) and b: one for
\* every edge of a, epsilon loops included, and every edge of b whose input
\* symbol is the output symbol of the edge of a
ProductEdges(a, b) ==
    {<<<<p[1][1], p[2][1]>>, p[1][2], p[2][3], <<p[1][4], p[2][4]>>, p[2][5]>> :
        p \in {q \in WithLoops(a) \X b.transitions : q[1][3] = q[2][2]}}

\* the product states at most n edges away from the states `from`
RECURSIVE ReachableWithin(_, _, _)
ReachableWithin(n, from, edges) ==
    IF n = 0 THEN from
    ELSE ReachableWithin(n - 1, from \cup {e[4] : e \in {x \in edges : x[1] \in from}},
                         edges)

\* the product states reachable from the start state of the product
Reachable(product, a, b) ==
    ReachableWithin(Cardinality(Mentioned(a)) * Cardinality(Mentioned(b)),
                    {product.start_state}, ProductEdges(a, b))

\* C4: compose_fst(m1, m2), m1 without epsilon-input edges, has exactly the
\* product edges whose source is reachable from the start state of the
\* product, the reachable pairs of accepting states as accepting set, and the
\* reachable product states as state set
C4_ComposeIsReachableProduct ==
    (ret.op = "compose_fst" /\ \A x \in M1Before.transitions : x[2] # Epsilon) =>
        LET R == Reachable(m3, M1Before, m2)
        IN  /\ m3.transitions = {e \in ProductEdges(M1Before, m2) : e[1] \in R}
            /\ m3.accepting = {q \in R : q[1] \in M1Before.accepting
                                         /\ q[2] \in m2.accepting}
            /\ m3.states = R

\* composed: a product with an edge that stems from an epsilon loop of m1, an
\* edge that stems from an edge of m1, and an accepting pair
C4_Witness ==
    /\ ret.op = "compose_fst"
    /\ \A x \in M1Before.transitions : x[2] # Epsilon
    /\ \E e \in m3.transitions : e[2] = Epsilon /\ e[1] = e[4]
    /\ \E e \in m3.transitions : e[2] = "a" /\ e[1] # e[4]
    /\ m3.accepting # {}

\* composed: product edges were pruned and others were kept
C4_WitnessPruned ==
    /\ ret.op = "compose_fst"
    /\ m3.transitions # {}
    /\ m3.transitions # ProductEdges(M1Before, m2)

----------------------------------------------------------------------------
(* Properties of recognize on automata built by add_transition *)

\* some path from the start state labelled s ends in an accepting state
PathAccepts(f, s) ==
    \E q \in [0..Len(s) -> f.states] :
        /\ q[0] = f.start_state
        /\ \A i \in 1..Len(s) : <<q[i - 1], s[i], q[i]>> \in f.transitions
        /\ q[Len(s)] \in f.accepting

\* at most one target per (state, symbol)
OneTargetPerKey(f) == \A k \in Keys(f) : Cardinality(Move(f, k[2], k[1])) <= 1

\* C11: recognize(s) on an automaton built by add_transition calls raises
\* nothing and answers true exactly when some path from the start state
\* labelled s ends in an accepting state; with at most one target per (state,
\* symbol) the deterministic walk and the worklist search agree
C11_RecognizeFollowsPaths ==
    (ret.op = "recognize" /\ NMin = 0 /\ ncalls > 0) =>
        /\ ret.exc = "None"
        /\ ret.val <=> PathAccepts(fsa, ret.arg)
        /\ OneTargetPerKey(fsa) => RecognizeDfa(fsa, ret.arg) = RecognizeNfa(fsa, ret.arg)

----------------------------------------------------------------------------
(* The state set of an instance *)

\* the states an FSA refers to: sources and targets of its transitions, its
\* start state, its accepting states
FsaReferenced(f) ==
    {x[1] : x \in f.transitions} \cup {x[3] : x \in f.transitions} \cup f.accepting
    \cup (IF f.start_state = None THEN {} ELSE {f.start_state})

\* the same for an FST built by add_transition, fromfsa or invert
FstReferenced(t) ==
    {x[1] : x \in t.transitions} \cup {x[4] : x \in t.transitions} \cup t.accepting
    \cup (IF t.start_state = None THEN {} ELSE {t.start_state})

\* the same for the result of compose_fst, whose states are pairs
ProductReferenced(t) ==
    {x[1] : x \in t.transitions} \cup {x[4] : x \in t.transitions} \cup t.accepting
    \cup {t.start_state}

\* C12: every state an instance refers to (source or target of a transition,
\* start state, accepting state) is in the instance's _states
C12_StateSetInvariant ==
    /\ FsaReferenced(fsa) \subseteq fsa.states
    /\ FstReferenced(m1) \subseteq m1.states
    /\ FstReferenced(m2) \subseteq m2.states
    /\ ret.op = "compose_fst" => ProductReferenced(m3) \subseteq m3.states

----------------------------------------------------------------------------
(* Isolation of the instances *)

SameFst(a, b) ==
    /\ a.transitions = b.transitions
    /\ a.states = b.states
    /\ a.start_state = b.start_state
    /\ a.accepting = b.accepting

\* C13: fromfsa and compose_fst leave their arguments as they were, and a
\* mutation of the result of fromfsa (mark_accepting, add_transition) leaves
\* the FSA it was built from as it was
C13_InstancesIsolated ==
    [][/\ ret'.op \in {"fromfsa", "mark_accepting", "fst_add_transition", "compose_fst"}
            => SameAutomaton(fsa', fsa)
       /\ ret'.op = "compose_fst" => SameFst(m1', m1) /\ SameFst(m2', m2)]_vars

----------------------------------------------------------------------------
(* The start state of a composed FST *)

\* the states of an operand reachable from its start state
OperandReachable(t) ==
    ReachableWithin(Cardinality(Mentioned(t)), {t.start_state}, t.transitions)

\* C14: the start state of compose_fst(m1, m2) is the pair of the operands'
\* start states, and every state the result keeps is a pair of a state
\* reachable in m1 and a state reachable in m2
C14_ComposeStartsAtOperandStarts ==
    (/\ ret.op = "compose_fst"
     /\ M1Before.start_state # None
     /\ m2.start_state # None) =>
        /\ m3.start_state = <<M1Before.start_state, m2.start_state>>
        /\ \A q \in m3.states : /\ q[1] \in OperandReachable(M1Before)
                                 /\ q[2] \in OperandReachable(m2)

====
